---- MODULE Spec2Model ----
(***************************************************************************)
(* Inkling: journal / priorities REST API and the AI analysis pipeline     *)
(* (apps/api/src/modules/{journal,priorities,ai}, packages/db schema).     *)
(*                                                                         *)
(* The store is five tables of rows.  Every request handler is one atomic  *)
(* action (requests are handled one after the other in these              *)
(* specifications).  The language model is the environment: its response  *)
(* is an input of the action, drawn from a small set; a failed call or an *)
(* unparseable body is the response with ok = FALSE.                       *)
(*                                                                         *)
(* Columns the handlers never read or write (createdAt, metadata,         *)
(* clarifying_questions.context_entity_id) are left out.  The database is  *)
(* taken to execute the statements the handlers issue; enforcement of the  *)
(* REFERENCES clauses of schema.ts by the engine is not part of the model. *)
(*                                                                         *)
(* Record constructors list their fields in the order TLC keeps them (the  *)
(* order in which the names first occur in the module), so that a record   *)
(* value that several workers hold is never re-sorted in place.            *)
(***************************************************************************)
EXTENDS Integers, Sequences, FiniteSets, TLC

VARIABLES
  journalEntries,       \* set of rows of journal_entries
  priorities,           \* set of rows of priorities
  contextEntities,      \* set of rows of context_entities
  entityRelationships,  \* set of rows of entity_relationships
  clarifyingQuestions,  \* set of rows of clarifying_questions
  seq,                  \* next value of the serial sequences that outlive deletes
  now,                  \* the clock (new Date())
  last,                 \* the request handled last: its inputs, reads and response
  running,              \* the analyses under way, statement by statement
  scroll                \* the journal view of the web client: day and pages loaded

vars == <<journalEntries, priorities, contextEntities, entityRelationships,
          clarifyingQuestions, seq, now, last, running, scroll>>

tables == <<journalEntries, priorities, contextEntities, entityRelationships,
            clarifyingQuestions>>

(***************************************************************************)
(* Bounds of the model.                                                    *)
(***************************************************************************)
MaxTime == 2
TicksPerDay == 2
MaxEntries == 2
MaxPriorities == 2
MaxEntities == 4
MaxRelationships == 3
MaxQuestions == 6

Users == {"u1", "u2"}
Null == "<null>"

(***************************************************************************)
(* Dates.  setHours(0, 0, 0, 0) puts a timestamp at the start of its day.  *)
(***************************************************************************)
StartOfDay(t) == t - (t % TicksPerDay)

(***************************************************************************)
(* String.prototype.toLowerCase on the names the model uses.               *)
(***************************************************************************)
toLowerCase(s) ==
  CASE s = "Alex" -> "alex"
    [] s = "Atlas" -> "atlas"
    [] OTHER -> s

(***************************************************************************)
(* .limit(n): any n of the rows when more than n match.  Where a query     *)
(* has an ORDER BY (the context queries), this takes in what it returns.   *)
(***************************************************************************)
Limit(rows, n) ==
  IF Cardinality(rows) <= n THEN {rows}
  ELSE {s \in SUBSET rows : Cardinality(s) = n}

Owners(rows) == {r.userId : r \in rows}

NoResp == [ok |-> TRUE]

\* What is recorded of a handled request: the endpoint, the caller, the :id, the
\* HTTP status, the model's response, the rows sent back, the owners of the rows
\* its queries returned and the number of calls to the model.  The answer
\* endpoints also record the answer of the body and the row :id addressed as it
\* was before the request, the by-date endpoints the date of the query.
Request(op, u, id, status, resp, returned, reads, calls) ==
  [userId |-> u, op |-> op, id |-> id, status |-> status, resp |-> resp,
   returned |-> returned, readOwners |-> Owners(reads), modelCalls |-> calls,
   answer |-> Null, addressed |-> {}, date |-> Null]

\* The requests that can be under way at once, and the record of none.
Requests == {"r1", "r2"}

Idle == [pc |-> "idle", at |-> "idle"]

\* The journal view on a day before its first page is there (and after
\* resetQueries).
Unloaded(day) == [date |-> day, pages |-> <<>>]

Init ==
  /\ journalEntries = {}
  /\ priorities = {}
  /\ contextEntities = {}
  /\ entityRelationships = {}
  /\ clarifyingQuestions = {}
  /\ seq = [journalEntries |-> 1, priorities |-> 1, rank |-> 1, journalEntryId |-> 1]
  /\ now = 0
  /\ last = Request("init", "u1", 0, 200, NoResp, {}, {}, 0)
  /\ running = [r \in Requests |-> Idle]
  /\ scroll = Unloaded(0)

Tick ==
  /\ now < MaxTime
  /\ now' = now + 1
  /\ UNCHANGED <<tables, seq, last, running, scroll>>

(***************************************************************************)
(* journalService and journalRoutes                                        *)
(***************************************************************************)
\* The lookup by :id without the userId condition (a faulty variant).
EntryByIdOfAnyUser(id, u) == {e \in journalEntries : e.id = id}

EntryById(id, u) == {e \in journalEntries : e.id = id /\ e.userId = u}

EntriesOf(u) == {e \in journalEntries : e.userId = u}

\* An optional field of a request body or query is the empty set or a singleton.
Given(opt, default) == IF opt = {} THEN default ELSE CHOOSE x \in opt : TRUE

DefaultPageLimit == 50

\* orderBy(desc(date)).limit(limit).offset(offset): the row sets one page can
\* be (rows of equal date come in any order).
Page(rows, limit, offset) ==
  IF offset = 0 /\ limit >= Cardinality(rows) THEN {rows} ELSE
  {page \in SUBSET rows :
     \E skipped \in SUBSET (rows \ page) :
       /\ Cardinality(skipped) = IF offset < Cardinality(rows) THEN offset
                                 ELSE Cardinality(rows)
       /\ Cardinality(page) = IF limit < Cardinality(rows) - Cardinality(skipped)
                              THEN limit
                              ELSE Cardinality(rows) - Cardinality(skipped)
       /\ \A k \in skipped, p \in page : k.date >= p.date
       /\ \A p \in skipped \cup page, r \in rows \ (skipped \cup page) :
            p.date >= r.date}

\* GET /journal?limit=&offset=: both optional, 50 and 0 when left out
getJournalEntries(u, limit, offset) ==
  /\ \E page \in Page(EntriesOf(u), Given(limit, DefaultPageLimit), Given(offset, 0)) :
       last' = Request("getJournalEntries", u, 0, 200, NoResp, page, page, 0)
  /\ UNCHANGED <<tables, seq, now, running, scroll>>

\* GET /journal/by-date?date=: the route passes the date alone, and the query
\* of the service has the userId condition alone
byDate(u, date) ==
  /\ \E page \in Page(EntriesOf(u), DefaultPageLimit, 0) :
       last' = [Request("getJournalEntriesByDate", u, 0, 200, NoResp, page, page, 0)
                  EXCEPT !.date = date]
  /\ UNCHANGED <<tables, seq, now, running>>

\* The same request from a client other than the journal view.
getJournalEntriesByDate(u, date) ==
  /\ byDate(u, date)
  /\ UNCHANGED scroll

\* POST /journal: date is optional in the body (defaultNow)
createJournalEntry(u, content, date) ==
  /\ seq.journalEntries <= MaxEntries
  /\ LET row == [userId |-> u, id |-> seq.journalEntries, date |-> Given(date, now),
                 content |-> content, updatedAt |-> now]
     IN /\ journalEntries' = journalEntries \cup {row}
        /\ last' = Request("createJournalEntry", u, row.id, 201, NoResp, {row}, {}, 0)
  /\ seq' = [seq EXCEPT !.journalEntries = @ + 1]
  /\ UNCHANGED <<priorities, contextEntities, entityRelationships,
                 clarifyingQuestions, now, running, scroll>>

\* GET /journal/:id
getJournalEntryById(u, id) ==
  /\ last' = Request("getJournalEntryById", u, id,
                     IF EntryById(id, u) = {} THEN 404 ELSE 200, NoResp,
                     EntryById(id, u), EntryById(id, u), 0)
  /\ UNCHANGED <<tables, seq, now, running, scroll>>

\* PUT /journal/:id
updateJournalEntry(u, id, content) ==
  LET hit == EntryById(id, u)
      new == {[e EXCEPT !.content = content, !.updatedAt = now] : e \in hit}
  IN /\ journalEntries' = (journalEntries \ hit) \cup new
     /\ last' = Request("updateJournalEntry", u, id,
                        IF hit = {} THEN 404 ELSE 200, NoResp, new, hit, 0)
     /\ UNCHANGED <<priorities, contextEntities, entityRelationships,
                    clarifyingQuestions, seq, now, running, scroll>>

\* DELETE /journal/:id
deleteJournalEntry(u, id) ==
  /\ journalEntries' = journalEntries \ EntryById(id, u)
  /\ last' = Request("deleteJournalEntry", u, id, 200, NoResp, {}, EntryById(id, u), 0)
  /\ UNCHANGED <<priorities, contextEntities, entityRelationships,
                 clarifyingQuestions, seq, now, running, scroll>>

(***************************************************************************)
(* prioritiesService and prioritiesRoutes                                  *)
(***************************************************************************)
\* The lookup by :id without the userId condition (a faulty variant).
PriorityByIdOfAnyUser(id, u) == {p \in priorities : p.id = id}

PriorityById(id, u) == {p \in priorities : p.id = id /\ p.userId = u}

PrioritiesOf(u) == {p \in priorities : p.userId = u}

\* POST /priorities: rank, journalEntryId (serial columns), date and completed
\* are optional in the body and take the column default when left out
createPriority(u, content, rank, journalEntryId) ==
  /\ seq.priorities <= MaxPriorities
  /\ LET row == [userId |-> u, id |-> seq.priorities, date |-> now,
                 rank |-> Given(rank, seq.rank),
                 journalEntryId |-> Given(journalEntryId, seq.journalEntryId),
                 content |-> content,
                 updatedAt |-> now,
                 completed |-> FALSE]
     IN /\ priorities' = priorities \cup {row}
        /\ last' = Request("createPriority", u, row.id, 201, NoResp, {row}, {}, 0)
  /\ seq' = [seq EXCEPT !.priorities = @ + 1,
                        !.rank = IF rank = {} THEN @ + 1 ELSE @,
                        !.journalEntryId = IF journalEntryId = {} THEN @ + 1 ELSE @]
  /\ UNCHANGED <<journalEntries, contextEntities, entityRelationships,
                 clarifyingQuestions, now, running, scroll>>

\* PUT /priorities/:id: content, completed and rank are optional in the body
updatePriority(u, id, content, completed, rank) ==
  LET hit == PriorityById(id, u)
      new == {[p EXCEPT !.content = Given(content, @),
                        !.completed = Given(completed, @),
                        !.rank = Given(rank, @),
                        !.updatedAt = now] : p \in hit}
  IN /\ priorities' = (priorities \ hit) \cup new
     /\ last' = Request("updatePriority", u, id,
                        IF hit = {} THEN 404 ELSE 200, NoResp, new, hit, 0)
     /\ UNCHANGED <<journalEntries, contextEntities, entityRelationships,
                    clarifyingQuestions, seq, now, running, scroll>>

\* PUT /priorities/:id/toggle
togglePriorityCompletion(u, id) ==
  LET hit == PriorityById(id, u)
      new == {[p EXCEPT !.completed = ~p.completed, !.updatedAt = now] : p \in hit}
  IN /\ priorities' = (priorities \ hit) \cup new
     /\ last' = Request("togglePriorityCompletion", u, id,
                        IF hit = {} THEN 404 ELSE 200, NoResp, new, hit, 0)
     /\ UNCHANGED <<journalEntries, contextEntities, entityRelationships,
                    clarifyingQuestions, seq, now, running, scroll>>

\* PUT /priorities/:id/rank
updatePriorityRank(u, id, newRank) ==
  LET hit == PriorityById(id, u)
      new == {[p EXCEPT !.rank = newRank, !.updatedAt = now] : p \in hit}
  IN /\ priorities' = (priorities \ hit) \cup new
     /\ last' = Request("updatePriorityRank", u, id,
                        IF hit = {} THEN 404 ELSE 200, NoResp, new, hit, 0)
     /\ UNCHANGED <<journalEntries, contextEntities, entityRelationships,
                    clarifyingQuestions, seq, now, running, scroll>>

\* DELETE /priorities/:id
deletePriority(u, id) ==
  /\ priorities' = priorities \ PriorityById(id, u)
  /\ last' = Request("deletePriority", u, id, 200, NoResp, {}, PriorityById(id, u), 0)
  /\ UNCHANGED <<journalEntries, contextEntities, entityRelationships,
                 clarifyingQuestions, seq, now, running, scroll>>

\* GET /priorities/:id
getPriorityById(u, id) ==
  /\ last' = Request("getPriorityById", u, id,
                     IF PriorityById(id, u) = {} THEN 404 ELSE 200, NoResp,
                     PriorityById(id, u), PriorityById(id, u), 0)
  /\ UNCHANGED <<tables, seq, now, running, scroll>>

\* GET /priorities/by-date?date=: the query has the userId condition alone
getPrioritiesByDate(u, date) ==
  /\ last' = [Request("getPrioritiesByDate", u, 0, 200, NoResp, PrioritiesOf(u),
                      PrioritiesOf(u), 0) EXCEPT !.date = date]
  /\ UNCHANGED <<tables, seq, now, running, scroll>>

\* GET /priorities
getPriorities(u) ==
  /\ last' = Request("getPriorities", u, 0, 200, NoResp, PrioritiesOf(u),
                     PrioritiesOf(u), 0)
  /\ UNCHANGED <<tables, seq, now, running, scroll>>

(***************************************************************************)
(* aiService (apps/api/src/modules/ai/ai.service.ts)                       *)
(***************************************************************************)
RecentEntitiesLimit == 20
RelationshipsLimit == 30
ExistingQuestionsLimit == 10
RecentEntriesLimit == 10
PendingQuestionsLimit == 5
QuestionRelationshipsLimit == 20
ExistingEntitiesLimit == 30

EntitiesOf(u) == {e \in contextEntities : e.userId = u}

RelationshipsOf(u) == {r \in entityRelationships : r.userId = u}

QuestionsOf(u) == {q \in clarifyingQuestions : q.userId = u}

\* The rows the context assembler of analyzeJournalEntry can read.
AnalysisContext(u, id) ==
  UNION (Limit(EntriesOf(u), RecentEntriesLimit)
         \cup Limit(EntitiesOf(u), RecentEntitiesLimit)
         \cup Limit(RelationshipsOf(u), RelationshipsLimit)
         \cup Limit(QuestionsOf(u), ExistingQuestionsLimit)
         \cup {EntryById(id, u)})

\* A faulty variant: the user's stored priorities are replaced by the new ones.
StorePrioritiesReplacing(u, rows) == {p \in priorities : p.userId # u} \cup rows

\* db.insert(priorities).values(...): the table after the inserts of one request.
StorePriorities(u, rows) == priorities \cup rows

\* The priority rows analyzeJournalEntry inserts for one response.
AnalysisPriorities(list, u, entry, first) ==
  {[userId |-> u, id |-> first + i - 1, date |-> StartOfDay(now),
    rank |-> list[i].rank, journalEntryId |-> entry.id, content |-> list[i].content,
    updatedAt |-> now, completed |-> FALSE] : i \in 1..Len(list)}

\* A faulty variant: the lookup by (type, name) without the userId condition.
EntityByKeyOfAnyUser(ents, u, type, name) ==
  {e \in ents : e.type = type /\ e.name = name}

\* select ... where userId, type and name match (.limit(1) takes one of the set).
EntityByKey(ents, u, type, name) ==
  {e \in ents : e.userId = u /\ e.type = type /\ e.name = name}

NewEntity(ents, u, entity) ==
  [userId |-> u, id |-> Cardinality(ents) + 1, updatedAt |-> now,
   type |-> entity.type, name |-> entity.name, description |-> entity.description]

\* A faulty variant: the entity is inserted without the lookup.
UpsertEntityUnchecked(ents, u, entity) == {ents \cup {NewEntity(ents, u, entity)}}

\* One extracted entity against the table: the tables that can result
\* (.limit(1) picks any one of several matching rows).
UpsertEntity(ents, u, entity) ==
  LET existingEntity == EntityByKey(ents, u, entity.type, entity.name)
  IN IF existingEntity = {} THEN {ents \cup {NewEntity(ents, u, entity)}}
     ELSE {IF entity.description # "" /\ entity.description # e.description
           THEN (ents \ {e}) \cup {[e EXCEPT !.description = entity.description,
                                             !.updatedAt = now]}
           ELSE ents : e \in existingEntity}

\* The loop over analysisResult.entities: the set of tables it can end with.
RECURSIVE ProcessEntities(_, _, _)
ProcessEntities(ents, u, list) ==
  IF list = <<>> THEN {ents}
  ELSE UNION {ProcessEntities(t, u, Tail(list)) : t \in UpsertEntity(ents, u, Head(list))}

NewRelationship(rels, u, source, target, type) ==
  [userId |-> u, id |-> Cardinality(rels) + 1, updatedAt |-> now,
   sourceEntityId |-> source, targetEntityId |-> target, relationshipType |-> type]

ExistingRelationship(rels, u, source, target, type) ==
  {r \in rels : /\ r.userId = u
                /\ r.sourceEntityId = source
                /\ r.targetEntityId = target
                /\ r.relationshipType = type}

\* One proposed relationship of entry analysis against the tables.
LinkEntities(rels, ents, u, relationship) ==
  LET sourceEntity == EntityByKey(ents, u, relationship.sourceType, relationship.sourceName)
      targetEntity == EntityByKey(ents, u, relationship.targetType, relationship.targetName)
  IN IF sourceEntity = {} \/ targetEntity = {} THEN {rels}
     ELSE {IF ExistingRelationship(rels, u, s.id, t.id, relationship.relationshipType) = {}
           THEN rels \cup {NewRelationship(rels, u, s.id, t.id,
                                           relationship.relationshipType)}
           ELSE rels : s \in sourceEntity, t \in targetEntity}

\* A faulty variant: the loop stops at the first relationship it cannot resolve.
RECURSIVE ProcessRelationshipsUntilMiss(_, _, _, _)
ProcessRelationshipsUntilMiss(rels, ents, u, list) ==
  IF list = <<>> THEN {rels}
  ELSE IF \/ EntityByKey(ents, u, Head(list).sourceType, Head(list).sourceName) = {}
          \/ EntityByKey(ents, u, Head(list).targetType, Head(list).targetName) = {}
       THEN {rels}
       ELSE UNION {ProcessRelationshipsUntilMiss(r, ents, u, Tail(list)) :
                     r \in LinkEntities(rels, ents, u, Head(list))}

\* The loop over analysisResult.relationships.
RECURSIVE ProcessRelationships(_, _, _, _)
ProcessRelationships(rels, ents, u, list) ==
  IF list = <<>> THEN {rels}
  ELSE UNION {ProcessRelationships(r, ents, u, Tail(list)) :
                r \in LinkEntities(rels, ents, u, Head(list))}

NewQuestion(qs, u, text) ==
  [userId |-> u, id |-> Cardinality(qs) + 1, status |-> "pending", answer |-> Null,
   updatedAt |-> now, question |-> text]

\* A faulty variant: the question is inserted without the lookup.
AddQuestionUnchecked(qs, u, text) == qs \cup {NewQuestion(qs, u, text)}

\* One proposed clarifying question of entry analysis.
AddQuestion(qs, u, text) ==
  IF {q \in qs : q.userId = u /\ q.question = text} = {}
  THEN qs \cup {NewQuestion(qs, u, text)}
  ELSE qs

\* The loop over analysisResult.clarifyingQuestions.
RECURSIVE ProcessQuestions(_, _, _)
ProcessQuestions(qs, u, list) ==
  IF list = <<>> THEN qs
  ELSE ProcessQuestions(AddQuestion(qs, u, Head(list).question), u, Tail(list))

\* aiService.analyzeJournalEntry behind POST /ai/analyze-entry/:id
analyzeJournalEntry(u, id, resp) ==
  LET entryResults == EntryById(id, u)
  IN IF entryResults = {}
     THEN /\ last' = Request("analyzeJournalEntry", u, id, 500, NoResp, {}, {}, 0)
          /\ UNCHANGED <<tables, seq, now, running, scroll>>
     ELSE IF ~resp.ok
     THEN /\ last' = Request("analyzeJournalEntry", u, id, 500, resp, {},
                             AnalysisContext(u, id), 1)
          /\ UNCHANGED <<tables, seq, now, running, scroll>>
     ELSE
       LET entry == CHOOSE e \in entryResults : TRUE
           rows == AnalysisPriorities(resp.priorities, u, entry, seq.priorities)
       IN /\ seq.priorities + Len(resp.priorities) <= MaxPriorities + 1
          /\ priorities' = StorePriorities(u, rows)
          /\ seq' = [seq EXCEPT !.priorities = @ + Len(resp.priorities)]
          /\ contextEntities' \in ProcessEntities(contextEntities, u, resp.entities)
          /\ Cardinality(contextEntities') <= MaxEntities
          /\ entityRelationships' \in
               ProcessRelationships(entityRelationships, contextEntities', u,
                                    resp.relationships)
          /\ Cardinality(entityRelationships') <= MaxRelationships
          /\ clarifyingQuestions' =
               ProcessQuestions(clarifyingQuestions, u, resp.clarifyingQuestions)
          /\ Cardinality(clarifyingQuestions') <= MaxQuestions
          /\ last' = Request("analyzeJournalEntry", u, id, 200, resp, {},
                             AnalysisContext(u, id), 1)
          /\ UNCHANGED <<journalEntries, now, running, scroll>>

\* aiService.generateDailySummary behind GET /ai/daily-summary
generateDailySummary(u, date, resp) ==
  LET entries == EntriesOf(u)
      existingPriorities == PrioritiesOf(u)
      existingContents == {p.content : p \in existingPriorities}
      fresh == SelectSeq(resp.priorities, LAMBDA p : p.content \notin existingContents)
      rows == {[userId |-> u, id |-> seq.priorities + i - 1,
                date |-> date, rank |-> fresh[i].rank,
                journalEntryId |-> seq.journalEntryId + i - 1,
                content |-> fresh[i].content,
                updatedAt |-> now,
                completed |-> FALSE] : i \in 1..Len(fresh)}
  IN IF entries = {}
     THEN /\ last' = [Request("generateDailySummary", u, 0, 200, NoResp, {}, {}, 0)
                       EXCEPT !.date = date]
          /\ UNCHANGED <<tables, seq, now, running, scroll>>
     ELSE IF ~resp.ok
     THEN /\ last' = [Request("generateDailySummary", u, 0, 500, resp, {},
                              entries \cup existingPriorities, 1)
                        EXCEPT !.date = date]
          /\ UNCHANGED <<tables, seq, now, running, scroll>>
     ELSE /\ seq.priorities + Len(fresh) <= MaxPriorities + 1
          /\ priorities' = StorePriorities(u, rows)
          /\ seq' = [seq EXCEPT !.priorities = @ + Len(fresh),
                                !.journalEntryId = @ + Len(fresh)]
          /\ last' = [Request("generateDailySummary", u, 0, 200, resp, {},
                              entries \cup existingPriorities, 1)
                        EXCEPT !.date = date]
          /\ UNCHANGED <<journalEntries, contextEntities, entityRelationships,
                         clarifyingQuestions, now, running, scroll>>

PendingQuestions(u) ==
  {q \in clarifyingQuestions : q.userId = u /\ q.status = "pending"}

\* A faulty variant: the select without the status condition.
SelectPendingOrAnswered(u) == Limit(QuestionsOf(u), PendingQuestionsLimit)

\* The select of the pending questions: .limit(5) and no order.
SelectPending(u) == Limit(PendingQuestions(u), PendingQuestionsLimit)

\* The rows generateClarifyingQuestions inserts for one response.
GeneratedQuestions(list, u) ==
  {[userId |-> u, id |-> Cardinality(clarifyingQuestions) + i,
    status |-> "pending", answer |-> Null, updatedAt |-> now,
    question |-> list[i].question] : i \in 1..Len(list)}

\* aiService.generateClarifyingQuestions behind GET /ai/clarifying-questions
generateClarifyingQuestions(u, resp) ==
  LET context == UNION (Limit(EntitiesOf(u), RecentEntitiesLimit)
                        \cup Limit(RelationshipsOf(u), QuestionRelationshipsLimit))
  IN \E pendingQuestions \in SelectPending(u) :
       IF pendingQuestions # {}
       THEN /\ last' = Request("generateClarifyingQuestions", u, 0, 200, NoResp,
                               pendingQuestions, context \cup pendingQuestions, 0)
            /\ UNCHANGED <<tables, seq, now, running, scroll>>
       ELSE IF ~resp.ok
       THEN /\ last' = Request("generateClarifyingQuestions", u, 0, 500, resp, {},
                               context \cup UNION Limit(EntriesOf(u), RecentEntriesLimit), 1)
            /\ UNCHANGED <<tables, seq, now, running, scroll>>
       ELSE /\ Cardinality(clarifyingQuestions) + Len(resp.questions) <= MaxQuestions
            /\ clarifyingQuestions' =
                 clarifyingQuestions \cup GeneratedQuestions(resp.questions, u)
            /\ last' = Request("generateClarifyingQuestions", u, 0, 200, resp,
                               GeneratedQuestions(resp.questions, u),
                               context \cup UNION Limit(EntriesOf(u), RecentEntriesLimit), 1)
            /\ UNCHANGED <<journalEntries, priorities, contextEntities,
                           entityRelationships, seq, now, running, scroll>>

(***************************************************************************)
(* aiService.enhanceContextFromAnswer.  entityIdMap is a function from the *)
(* names to ids, 0 where the Map has no key.                               *)
(***************************************************************************)
Names == {"Alex", "alex", "Atlas", "Ghost"}

EmptyMap == [n \in Names |-> 0]

\* existingEntities.find(e => same lower-cased name and same type)
FindByNameAndType(existingEntities, name, type) ==
  {e \in existingEntities : toLowerCase(e.name) = toLowerCase(name) /\ e.type = type}

\* existingEntities.find(e => same lower-cased name)
FindByName(existingEntities, name) ==
  {e \in existingEntities : toLowerCase(e.name) = toLowerCase(name)}

\* One item of analysis.newEntities: the (table, map) pairs that can result.
AddNewEntity(st, existingEntities, u, entity) ==
  LET existingEntity == FindByNameAndType(existingEntities, entity.name, entity.type)
      row == NewEntity(st.ents, u, entity)
  IN IF existingEntity = {}
     THEN {[ents |-> st.ents \cup {row}, map |-> [st.map EXCEPT ![entity.name] = row.id]]}
     ELSE {[ents |-> st.ents, map |-> [st.map EXCEPT ![entity.name] = e.id]] :
             e \in existingEntity}

RECURSIVE ProcessNewEntities(_, _, _, _)
ProcessNewEntities(st, existingEntities, u, list) ==
  IF list = <<>> THEN {st}
  ELSE UNION {ProcessNewEntities(t, existingEntities, u, Tail(list)) :
                t \in AddNewEntity(st, existingEntities, u, Head(list))}

\* One item of analysis.entityUpdates.
ApplyEntityUpdate(st, existingEntities, u, update) ==
  LET existingEntity == FindByNameAndType(existingEntities, update.name, update.type)
  IN IF existingEntity = {} THEN {st}
     ELSE {[ents |-> {IF r.id = e.id
                      THEN [r EXCEPT !.description = update.updatedDescription,
                                     !.updatedAt = now]
                      ELSE r : r \in st.ents},
            map |-> [st.map EXCEPT ![update.name] = e.id]] : e \in existingEntity}

RECURSIVE ProcessEntityUpdates(_, _, _, _)
ProcessEntityUpdates(st, existingEntities, u, list) ==
  IF list = <<>> THEN {st}
  ELSE UNION {ProcessEntityUpdates(t, existingEntities, u, Tail(list)) :
                t \in ApplyEntityUpdate(st, existingEntities, u, Head(list))}

\* The ids a relationship end can resolve to: the map first, then the snapshot.
ResolveEntityId(map, existingEntities, name) ==
  IF map[name] # 0 THEN {map[name]}
  ELSE {e.id : e \in FindByName(existingEntities, name)}

\* db.insert(entityRelationships)...onConflictDoNothing(): the table has no unique
\* constraint besides its serial primary key, so no insert ever conflicts.
InsertOnConflictDoNothing(rels, row) == rels \cup {row}

\* One item of analysis.relationships in the answer pass.
LinkFromAnswer(rels, map, existingEntities, u, relationship) ==
  LET sourceEntityId == ResolveEntityId(map, existingEntities, relationship.sourceEntityName)
      targetEntityId == ResolveEntityId(map, existingEntities, relationship.targetEntityName)
  IN IF sourceEntityId = {} \/ targetEntityId = {} THEN {rels}
     ELSE {InsertOnConflictDoNothing(rels,
             NewRelationship(rels, u, s, t, relationship.relationshipType)) :
             s \in sourceEntityId, t \in targetEntityId}

RECURSIVE ProcessAnswerRelationships(_, _, _, _, _)
ProcessAnswerRelationships(rels, map, existingEntities, u, list) ==
  IF list = <<>> THEN {rels}
  ELSE UNION {ProcessAnswerRelationships(r, map, existingEntities, u, Tail(list)) :
                r \in LinkFromAnswer(rels, map, existingEntities, u, Head(list))}

\* The (entities, relationships) pairs enhanceContextFromAnswer can leave.
EnhanceContext(u, resp) ==
  UNION {
    UNION {
      {[ents |-> st.ents, rels |-> r] :
         r \in ProcessAnswerRelationships(entityRelationships, st.map,
                                          existingEntities, u, resp.relationships)} :
      st \in UNION {ProcessEntityUpdates(s0, existingEntities, u, resp.entityUpdates) :
                      s0 \in ProcessNewEntities([ents |-> contextEntities, map |-> EmptyMap],
                                                existingEntities, u, resp.newEntities)}} :
    existingEntities \in Limit(EntitiesOf(u), ExistingEntitiesLimit)}

\* A faulty variant: the UPDATE touches pending questions only.
AnswerUpdateOnlyIfPending(u, questionId, answer) ==
  {IF q.id = questionId /\ q.userId = u /\ q.status = "pending"
   THEN [q EXCEPT !.answer = answer, !.status = "answered", !.updatedAt = now]
   ELSE q : q \in clarifyingQuestions}

\* A faulty variant: answering an answered question makes it pending again.
AnswerUpdateReopening(u, questionId, answer) ==
  {IF q.id = questionId /\ q.userId = u
   THEN [q EXCEPT !.answer = answer,
                  !.status = IF @ = "pending" THEN "answered" ELSE "pending",
                  !.updatedAt = now]
   ELSE q : q \in clarifyingQuestions}

\* The UPDATE ... RETURNING of answerClarifyingQuestion
AnswerUpdate(u, questionId, answer) ==
  {IF q.id = questionId /\ q.userId = u
   THEN [q EXCEPT !.answer = answer, !.status = "answered", !.updatedAt = now]
   ELSE q : q \in clarifyingQuestions}

QuestionById(id, u) == {q \in clarifyingQuestions : q.id = id /\ q.userId = u}

\* aiService.answerClarifyingQuestion behind POST /ai/answer-question/:id
answerClarifyingQuestion(u, questionId, answer, resp) ==
  LET results == QuestionById(questionId, u)
      question == {q \in AnswerUpdate(u, questionId, answer) : q.id = questionId}
  IN IF results = {}
     THEN /\ last' = [Request("answerClarifyingQuestion", u, questionId, 500, NoResp,
                              {}, {}, 0) EXCEPT !.answer = answer]
          /\ UNCHANGED <<tables, seq, now, running, scroll>>
     ELSE /\ clarifyingQuestions' = AnswerUpdate(u, questionId, answer)
          /\ IF ~resp.ok
             THEN /\ last' = [Request("answerClarifyingQuestion", u, questionId, 500,
                                      resp, {}, results \cup EntitiesOf(u), 1)
                                EXCEPT !.answer = answer, !.addressed = results]
                  /\ UNCHANGED <<contextEntities, entityRelationships, scroll>>
             ELSE /\ \E out \in EnhanceContext(u, resp) :
                       /\ contextEntities' = out.ents
                       /\ entityRelationships' = out.rels
                  /\ Cardinality(contextEntities') <= MaxEntities
                  /\ Cardinality(entityRelationships') <= MaxRelationships
                  /\ last' = [Request("answerClarifyingQuestion", u, questionId, 200,
                                      resp, question, results \cup EntitiesOf(u), 1)
                                EXCEPT !.answer = answer, !.addressed = results]
          /\ UNCHANGED <<journalEntries, priorities, seq, now, running, scroll>>


\* A faulty variant: the body is not validated.
AnyAnswer(body) == TRUE

\* answerQuestionSchema: answer is z.string().min(1); the body is the empty set
\* when it has no answer.
ValidAnswer(body) == body # {} /\ body # {""}

\* POST /ai/answer-question/:id: zValidator answers 400 before the handler runs
postAnswerQuestion(u, id, body, resp) ==
  IF ValidAnswer(body)
  THEN answerClarifyingQuestion(u, id, Given(body, Null), resp)
  ELSE /\ last' = [Request("postAnswerQuestion", u, id, 400, NoResp, {}, {}, 0)
                     EXCEPT !.answer = Given(body, Null)]
       /\ UNCHANGED <<tables, seq, now, running, scroll>>

\* POST /ai/questions/:id/answer of the other aiRoutes: the handler writes the
\* answer itself and does not go through aiService.
answerQuestionRoute(u, id, answer) ==
  LET results == QuestionById(id, u)
      question == {q \in AnswerUpdate(u, id, answer) : q.id = id}
  IN /\ clarifyingQuestions' = AnswerUpdate(u, id, answer)
     /\ last' = [Request("answerQuestionRoute", u, id,
                         IF results = {} THEN 404 ELSE 200, NoResp,
                         IF results = {} THEN {} ELSE question, results, 0)
                   EXCEPT !.answer = answer, !.addressed = results]
     /\ UNCHANGED <<journalEntries, priorities, contextEntities,
                    entityRelationships, seq, now, running, scroll>>

(***************************************************************************)
(* Inputs: what the model answers and what the clients send.               *)
(***************************************************************************)
Failed == [ok |-> FALSE]

Analysis(p, e, r, q) ==
  [priorities |-> p, clarifyingQuestions |-> q, ok |-> TRUE, entities |-> e,
   relationships |-> r]

Summary(p) == [priorities |-> p, ok |-> TRUE]

Questions(q) == [ok |-> TRUE, questions |-> q]

Insights(n, r, up) ==
  [ok |-> TRUE, relationships |-> r, entityUpdates |-> up, newEntities |-> n]

\* The sequences over items of length at most n.
RECURSIVE Lists(_, _)
Lists(items, n) ==
  IF n = 0 THEN {<<>>}
  ELSE Lists(items, n - 1) \cup
       {Append(l, x) : l \in {m \in Lists(items, n - 1) : Len(m) = n - 1}, x \in items}

EntryIds == 1..MaxEntries
PriorityIds == 1..MaxPriorities
QuestionIds == 1..MaxQuestions

(***************************************************************************)
(* Priorities: entry analysis and the daily summary next to the user's own *)
(* priority requests.                                                      *)
(***************************************************************************)
PriorityItems == {[rank |-> 1, content |-> "ship"]}

PriorityLists == Lists(PriorityItems, 2)

NextPriorities ==
  \/ Tick
  \/ createJournalEntry("u1", "met Alex", {})
  \/ \E id \in EntryIds, p \in PriorityLists :
       analyzeJournalEntry("u1", id, Analysis(p, <<>>, <<>>, <<>>))
  \/ \E id \in EntryIds : analyzeJournalEntry("u1", id, Failed)
  \/ \E p \in PriorityLists : generateDailySummary("u1", now, Summary(p))
  \/ generateDailySummary("u1", now, Failed)
  \/ \E u \in Users, id \in PriorityIds : deletePriority(u, id)

SpecPriorities == Init /\ [][NextPriorities]_vars

\* The step is the handling of a request to endpoint op (Tick alone moves the
\* clock and leaves the record of the last request as it is).
Handled(op) == last'.op = op /\ now' = now

\* C1: an entry analysis whose response holds N priorities creates exactly N
\* priority rows for the user, each with the analysed entry's id and dated on
\* the analysed entry's day.
C1_PrioritiesOfEntry ==
  [][Handled("analyzeJournalEntry") /\ last'.status = 200 =>
       LET created == priorities' \ priorities
       IN /\ Cardinality(created) = Len(last'.resp.priorities)
          /\ \A p \in created :
               /\ p.userId = last'.userId
               /\ p.journalEntryId = last'.id
               /\ \A e \in EntryById(last'.id, last'.userId) :
                    StartOfDay(p.date) = StartOfDay(e.date)]_vars

(***************************************************************************)
(* The five operations of the pipeline next to DELETE /priorities/:id.     *)
(***************************************************************************)
NextPipeline ==
  \/ createJournalEntry("u1", "met Alex", {})
  \/ \E id \in EntryIds, p \in PriorityLists, q \in Lists({[question |-> "who?"]}, 1) :
       analyzeJournalEntry("u1", id, Analysis(p, <<>>, <<>>, q))
  \/ \E p \in PriorityLists : generateDailySummary("u1", now, Summary(p))
  \/ \E q \in Lists({[question |-> "who?"]}, 1) :
       generateClarifyingQuestions("u1", Questions(q))
  \/ \E id \in QuestionIds :
       answerClarifyingQuestion("u1", id, "Alex", Insights(<<>>, <<>>, <<>>))
  \/ \E u \in Users, id \in PriorityIds : deletePriority(u, id)

SpecPipeline == Init /\ [][NextPipeline]_vars

PipelineOps ==
  {"analyzeJournalEntry", "generateDailySummary", "generateClarifyingQuestions",
   "answerClarifyingQuestion"}

\* C10: a request to the pipeline leaves every stored priority row as it is, and
\* a priority row goes away only in its owner's DELETE /priorities/:id.
C10_PrioritiesOnlyGrow ==
  [][/\ last'.op \in PipelineOps /\ now' = now => priorities \subseteq priorities'
     /\ \A p \in priorities :
          (\A r \in priorities' : r.id # p.id) =>
             /\ Handled("deletePriority")
             /\ last'.userId = p.userId
             /\ last'.id = p.id]_vars

C10_Witness ==
  /\ last.op \in {"analyzeJournalEntry", "generateDailySummary"}
  /\ last.status = 200
  /\ last.modelCalls = 1
  /\ Len(last.resp.priorities) > 0
  /\ Cardinality(priorities) > Len(last.resp.priorities)

(***************************************************************************)
(* The context graph: entities and relationships from entry analysis and   *)
(* from the answer pass.                                                   *)
(***************************************************************************)
Alex(description) == [type |-> "person", name |-> "Alex", description |-> description]

Atlas == [type |-> "project", name |-> "Atlas", description |-> "launch"]

EntityItems == {Alex("cto"), Alex("ceo")}

Manages(type, name) ==
  [relationshipType |-> "manages", sourceType |-> type, sourceName |-> name,
   targetType |-> "project", targetName |-> "Atlas"]

RelationshipItems == {Manages("person", "Alex"), Manages("person", "Ghost")}

ManagesByName(name) ==
  [relationshipType |-> "manages", sourceEntityName |-> name,
   targetEntityName |-> "Atlas"]

AnswerRelationshipItems == {ManagesByName("Alex"), ManagesByName("Ghost")}

MaxItems == 2

ExistingIds(rows) == 1..(Cardinality(rows) + 1)

(***************************************************************************)
(* Entities: entry analysis of both users, and the answer pass, which can  *)
(* store one entity twice.                                                 *)
(***************************************************************************)
NextEntities ==
  \/ now = 0 /\ contextEntities # {} /\ Tick
  \/ \E u \in Users : EntriesOf(u) = {} /\ createJournalEntry(u, "met Alex", {})
  \/ \E id \in EntryIds, e \in Lists(EntityItems, MaxItems) \cup {<<Alex("")>>} :
       analyzeJournalEntry("u1", id, Analysis(<<>>, e, <<>>, <<[question |-> "who?"]>>))
  \/ \E id \in EntryIds :
       analyzeJournalEntry("u2", id, Analysis(<<>>, <<Alex("cto")>>, <<>>, <<>>))
  \/ \E id \in ExistingIds(clarifyingQuestions), n \in Lists({Alex("cto")}, MaxItems) :
       answerClarifyingQuestion("u1", id, "Alex", Insights(n, <<>>, <<>>))

SpecEntities == Init /\ [][NextEntities]_vars

Key(e) == <<e.type, e.name>>

\* The rows of a table after the step that are not rows of it before.
Created(before, after) == {n \in after : \A o \in before : o.id # n.id}

\* C2: in entry analysis an extracted entity whose (userId, type, name) is stored,
\* or was stored for an earlier item of the response, creates no row; a stored
\* row changes in its description and updatedAt alone, and only when an
\* extracted description of its key differs from the stored one.
C2_EntityUpsert ==
  [][Handled("analyzeJournalEntry") /\ last'.status = 200 =>
       LET u == last'.userId
           list == last'.resp.entities
           stored == {Key(e) : e \in EntitiesOf(u)}
           created == Created(contextEntities, contextEntities')
           extracted(k) ==
             {list[i].description : i \in {j \in 1..Len(list) : Key(list[j]) = k}}
       IN /\ \A e \in created :
               /\ e.userId = u
               /\ Key(e) \notin stored
               /\ \A f \in created : Key(f) = Key(e) => f = e
          /\ \A o \in contextEntities :
               \E n \in contextEntities' :
                 /\ n.id = o.id
                 /\ \/ n = o
                    \/ /\ o.userId = u
                       /\ n = [o EXCEPT !.description = n.description,
                                        !.updatedAt = n.updatedAt]
                       /\ \E d \in extracted(Key(o)) : d # o.description
          /\ \A o \in EntitiesOf(u) :
               extracted(Key(o)) \subseteq {o.description} => o \in contextEntities']_vars

C2_Witness ==
  /\ last.op = "analyzeJournalEntry"
  /\ last.status = 200
  /\ Len(last.resp.entities) = 2
  /\ last.resp.entities[1].description # last.resp.entities[2].description
  /\ Cardinality(EntityByKey(contextEntities, last.userId, "person", "Alex")) = 1
  /\ \E e \in contextEntities : e.userId # last.userId /\ e.updatedAt # now

(***************************************************************************)
(* Relationships: entry analysis of both users and the answer pass.        *)
(***************************************************************************)
NextRelationships ==
  \/ \E u \in Users : createJournalEntry(u, "met Alex", {})
  \/ \E id \in EntryIds, e \in {<<>>, <<Alex("cto"), Atlas>>},
        r \in Lists(RelationshipItems, MaxItems) :
       analyzeJournalEntry("u1", id, Analysis(<<>>, e, r, <<[question |-> "who?"]>>))
  \/ \E id \in EntryIds :
       analyzeJournalEntry("u2", id, Analysis(<<>>, <<Alex("cto"), Atlas>>,
                                              <<Manages("person", "Alex")>>, <<>>))
  \/ \E id \in ExistingIds(clarifyingQuestions), n \in {<<>>, <<Alex("cto")>>},
        r \in Lists(AnswerRelationshipItems, MaxItems) :
       answerClarifyingQuestion("u1", id, "Alex", Insights(n, r, <<>>))

SpecRelationships == Init /\ [][NextRelationships]_vars

Stored(ents, u, type, name) ==
  \E e \in ents : e.userId = u /\ e.type = type /\ e.name = name

StoredByName(ents, u, name) == \E e \in ents : e.userId = u /\ e.name = name

\* Row is an edge of user u between entities that bear the names of item r.
Serves(row, ents, u, r) ==
  /\ row.userId = u
  /\ row.relationshipType = r.relationshipType
  /\ \E s \in ents, t \in ents :
       /\ s.id = row.sourceEntityId /\ s.userId = u
       /\ s.type = r.sourceType /\ s.name = r.sourceName
       /\ t.id = row.targetEntityId /\ t.userId = u
       /\ t.type = r.targetType /\ t.name = r.targetName

ServesByName(row, ents, u, r) ==
  /\ row.userId = u
  /\ row.relationshipType = r.relationshipType
  /\ \E s \in ents, t \in ents :
       /\ s.id = row.sourceEntityId /\ s.userId = u
       /\ toLowerCase(s.name) = toLowerCase(r.sourceEntityName)
       /\ t.id = row.targetEntityId /\ t.userId = u
       /\ toLowerCase(t.name) = toLowerCase(r.targetEntityName)

\* C3: a proposed relationship with an end that is no entity of the user creates
\* no row and raises no error, and the relationships and questions after it in
\* the response are still stored (entry analysis and answer pass).
C3_UnresolvedRelationshipDropped ==
  [][/\ Handled("analyzeJournalEntry") /\ last'.modelCalls = 1 /\ last'.resp.ok =>
          LET u == last'.userId
              list == last'.resp.relationships
              resolvable(r) ==
                /\ Stored(contextEntities', u, r.sourceType, r.sourceName)
                /\ Stored(contextEntities', u, r.targetType, r.targetName)
          IN /\ last'.status = 200
             /\ \A row \in Created(entityRelationships, entityRelationships') :
                  \E i \in 1..Len(list) :
                    resolvable(list[i]) /\ Serves(row, contextEntities', u, list[i])
             /\ \A i \in 1..Len(list) :
                  resolvable(list[i]) =>
                    \E row \in entityRelationships' :
                      Serves(row, contextEntities', u, list[i])
             /\ \A i \in 1..Len(last'.resp.clarifyingQuestions) :
                  \E q \in clarifyingQuestions' :
                    /\ q.userId = u
                    /\ q.question = last'.resp.clarifyingQuestions[i].question
     /\ Handled("answerClarifyingQuestion") /\ last'.modelCalls = 1 /\ last'.resp.ok =>
          LET u == last'.userId
              list == last'.resp.relationships
          IN /\ last'.status = 200
             /\ \A row \in Created(entityRelationships, entityRelationships') :
                  \E i \in 1..Len(list) : ServesByName(row, contextEntities', u, list[i])
             /\ Cardinality(EntitiesOf(u)) <= ExistingEntitiesLimit =>
                  \A i \in 1..Len(list) :
                    /\ StoredByName(contextEntities', u, list[i].sourceEntityName)
                    /\ StoredByName(contextEntities', u, list[i].targetEntityName)
                    => \E row \in entityRelationships' :
                         ServesByName(row, contextEntities', u, list[i])]_vars

\* An unresolved relationship came before a resolved one in the same response.
C3_Witness ==
  /\ last.op = "analyzeJournalEntry"
  /\ last.status = 200
  /\ Len(last.resp.relationships) = 2
  /\ ~Stored(contextEntities, last.userId, "person",
             last.resp.relationships[1].sourceName)
  /\ \E row \in entityRelationships :
       Serves(row, contextEntities, last.userId, last.resp.relationships[2])
  /\ \E q \in clarifyingQuestions : q.userId = last.userId

\* C8: both ends of every relationship row are entity rows of the row's user.
C8_EndpointsOfSameUser ==
  \A r \in entityRelationships :
    \E s \in contextEntities, t \in contextEntities :
      /\ s.id = r.sourceEntityId /\ s.userId = r.userId
      /\ t.id = r.targetEntityId /\ t.userId = r.userId

C8_Witness ==
  /\ last.op = "answerClarifyingQuestion"
  /\ last.status = 200
  /\ Len(last.resp.relationships) > 0
  /\ \E r \in entityRelationships : r.userId = "u1"
  /\ \E r \in entityRelationships : r.userId = "u2"

\* C9: no two relationship rows share (userId, sourceEntityId, targetEntityId,
\* relationshipType).
C9_NoDuplicateRelationship ==
  \A r1 \in entityRelationships, r2 \in entityRelationships :
    /\ r1.userId = r2.userId
    /\ r1.sourceEntityId = r2.sourceEntityId
    /\ r1.targetEntityId = r2.targetEntityId
    /\ r1.relationshipType = r2.relationshipType
    => r1 = r2

(***************************************************************************)
(* Clarifying questions: entry analysis and question generation create     *)
(* them, the two answer endpoints answer them.                             *)
(***************************************************************************)
Ask(texts) == [i \in 1..Len(texts) |-> [question |-> texts[i]]]

Answers == {"a1", "a2"}

NextQuestions ==
  \/ EntriesOf("u1") = {} /\ createJournalEntry("u1", "met Alex", {})
  \/ \E id \in EntryIds, q \in {Ask(<<"who?", "why?", "when?">>),
                                Ask(<<"where?", "what?", "how?">>)} :
       analyzeJournalEntry("u1", id, Analysis(<<>>, <<>>, <<>>, q))
  \/ \E u \in Users : generateClarifyingQuestions(u, Questions(Ask(<<"which?">>)))
  \/ generateClarifyingQuestions("u1", Failed)
  \/ \E id \in 1..MaxItems, a \in Answers :
       answerClarifyingQuestion("u1", id, a, Insights(<<>>, <<>>, <<>>))
  \/ \E id \in 1..MaxItems :
       answerClarifyingQuestion("u1", id, "a1", Failed)
  \/ \E u \in Users, id \in 1..MaxItems, a \in Answers :
       answerQuestionRoute(u, id, a)

SpecQuestions == Init /\ [][NextQuestions]_vars

Pending(u) == {q \in clarifyingQuestions : q.userId = u /\ q.status = "pending"}

Min(a, b) == IF a < b THEN a ELSE b

\* C4 as stated: with a pending question of the user, question generation
\* returns exactly the user's pending questions, calls no model and changes no
\* table; it calls the model only when the user has no pending question.
C4_ReturnsAllPending ==
  [][Handled("generateClarifyingQuestions") =>
       /\ Pending(last'.userId) # {} =>
            /\ last'.returned = Pending(last'.userId)
            /\ last'.modelCalls = 0
            /\ UNCHANGED tables
       /\ last'.modelCalls > 0 => Pending(last'.userId) = {}]_vars

\* C4 amended: with a pending question of the user, question generation returns
\* pending questions of the user as they are stored, all of them when there are
\* at most five and five of them otherwise, calls no model and changes no
\* table; it calls the model only when the user has no pending question.
C4_ReturnsPendingUpToLimit ==
  [][Handled("generateClarifyingQuestions") =>
       /\ Pending(last'.userId) # {} =>
            /\ last'.status = 200
            /\ last'.returned \subseteq Pending(last'.userId)
            /\ Cardinality(last'.returned) =
                 Min(Cardinality(Pending(last'.userId)), PendingQuestionsLimit)
            /\ last'.modelCalls = 0
            /\ UNCHANGED tables
       /\ last'.modelCalls > 0 => Pending(last'.userId) = {}]_vars

C4_Witness ==
  /\ last.op = "generateClarifyingQuestions"
  /\ last.modelCalls = 0
  /\ Cardinality(Pending(last.userId)) > PendingQuestionsLimit
  /\ Cardinality(last.returned) = PendingQuestionsLimit

AnswerOps == {"answerClarifyingQuestion", "answerQuestionRoute"}

\* C5: answering a question of the user, pending or answered before, leaves it
\* answered with the answer of this request, whether or not the model call that
\* follows succeeds; every other question row stays as it is.
C5_AnswerSetsAnsweredAndText ==
  [][last'.op \in AnswerOps /\ now' = now
       /\ QuestionById(last'.id, last'.userId) # {} =>
       /\ \A q \in QuestionById(last'.id, last'.userId) :
            [q EXCEPT !.status = "answered", !.answer = last'.answer,
                      !.updatedAt = now'] \in clarifyingQuestions'
       /\ \A q \in clarifyingQuestions' :
            q.id = last'.id => q.status = "answered" /\ q.answer = last'.answer
       /\ \A q \in clarifyingQuestions : q.id # last'.id => q \in clarifyingQuestions'
       /\ Cardinality(clarifyingQuestions') = Cardinality(clarifyingQuestions)]_vars

\* The question was answered a1 and has been answered again with a2.
C5_Witness ==
  /\ last.op = "answerClarifyingQuestion"
  /\ last.answer = "a2"
  /\ \E q \in last.addressed : q.status = "answered" /\ q.answer = "a1"
  /\ \E q \in clarifyingQuestions :
       q.id = last.id /\ q.status = "answered" /\ q.answer = "a2"

\* C6: every question row is pending or answered; a row is created pending;
\* an answered row stays answered and a row is never removed.
C6_QuestionStatus ==
  /\ [](\A q \in clarifyingQuestions : q.status \in {"pending", "answered"})
  /\ [][/\ \A n \in Created(clarifyingQuestions, clarifyingQuestions') :
            n.status = "pending" /\ n.answer = Null
        /\ \A q \in clarifyingQuestions :
             \E m \in clarifyingQuestions' :
               /\ m.id = q.id
               /\ q.status = "answered" => m.status = "answered"]_vars

C6_Witness ==
  /\ last.op \in AnswerOps
  /\ \E q \in last.addressed : q.status = "answered"
  /\ \E q \in clarifyingQuestions : q.status = "pending"
  /\ \E q \in clarifyingQuestions : q.id = last.id /\ q.status = "answered"

(***************************************************************************)
(* The whole API, called by both users.                                    *)
(***************************************************************************)
Ship == [rank |-> 1, content |-> "ship"]

Next ==
  \/ \E u \in Users : EntriesOf(u) = {} /\ createJournalEntry(u, "met Alex", {})
  \/ \E u \in Users, id \in EntryIds : getJournalEntryById(u, id)
  \/ updateJournalEntry("u1", 1, "met Alex again")
  \/ deleteJournalEntry("u1", 1)
  \/ PrioritiesOf("u1") = {} /\ createPriority("u1", "ship", {1}, {1})
  \/ updatePriority("u1", 1, {}, {TRUE}, {})
  \/ togglePriorityCompletion("u1", 1)
  \/ updatePriorityRank("u1", 1, 2)
  \/ \E id \in PriorityIds : deletePriority("u1", id)
  \/ \E u \in Users : getPriorities(u)
  \/ \E u \in Users, id \in EntryIds :
       EntitiesOf(u) = {} /\
       analyzeJournalEntry(u, id, Analysis(<<Ship>>, <<Alex("cto")>>, <<>>,
                                           Ask(<<"who?">>)))
  \/ generateDailySummary("u1", now, Summary(<<Ship>>))
  \/ \E u \in Users :
       QuestionsOf(u) = {} /\
       generateClarifyingQuestions(u, Questions(Ask(<<"which?">>)))
  \/ \E id \in 1..MaxItems :
       answerClarifyingQuestion("u1", id, "a1", Insights(<<Alex("cto")>>, <<>>, <<>>))
  \/ \E id \in 1..MaxItems : answerQuestionRoute("u1", id, "a1")

Spec == Init /\ [][Next]_vars

RowsOf(v) ==
  <<EntriesOf(v), PrioritiesOf(v), EntitiesOf(v), RelationshipsOf(v), QuestionsOf(v)>>

C11_NotFoundIs404 ==
  [][/\ Handled("analyzeJournalEntry")
        /\ (\A e \in journalEntries : ~(e.id = last'.id /\ e.userId = last'.userId))
        => last'.status = 404
     /\ Handled("answerClarifyingQuestion")
        /\ (\A q \in clarifyingQuestions : ~(q.id = last'.id /\ q.userId = last'.userId))
        => last'.status = 404]_vars

\* C12: entry analysis for an id that is no entry of the caller (an entry of
\* another user among them) fails, reads no context, calls no model and leaves
\* every table as it is.
C12_AnalysisOfMissingEntry ==
  [][Handled("analyzeJournalEntry")
       /\ (\A e \in journalEntries : ~(e.id = last'.id /\ e.userId = last'.userId))
       => /\ last'.status \notin {200, 201}
          /\ last'.modelCalls = 0
          /\ last'.readOwners = {}
          /\ UNCHANGED tables]_vars

\* The analysed id is an entry of the other user.
C12_Witness ==
  /\ last.op = "analyzeJournalEntry"
  /\ last.status # 200
  /\ last.modelCalls = 0
  /\ \E e \in journalEntries : e.id = last.id /\ e.userId # last.userId

\* C13: an AI operation whose model call fails or answers no JSON fails after
\* exactly one call of the model and leaves every table as it was.
C13_ModelFailureLeavesStore ==
  [][now' = now /\ last' # last /\ last'.modelCalls > 0 /\ ~last'.resp.ok =>
       /\ last'.status \notin {200, 201}
       /\ last'.modelCalls = 1
       /\ UNCHANGED tables]_vars
(***************************************************************************)
(* The journal and priority endpoints.                                     *)
(***************************************************************************)
Days == {0, TicksPerDay}

NextCrud ==
  \/ \E date \in {{}, {TicksPerDay}} : createJournalEntry("u1", "met Alex", date)
  \/ EntriesOf("u2") = {} /\ createJournalEntry("u2", "met Alex", {})
  \/ \E page \in {{}, {1}} : getJournalEntries("u1", page, page)
  \/ \E date \in Days : getJournalEntriesByDate("u1", date)
  \/ \E id \in EntryIds : getJournalEntryById("u1", id)
  \/ updateJournalEntry("u1", 1, "met Alex again")
  \/ \E id \in EntryIds : deleteJournalEntry("u1", id)
  \/ \E rank \in {{}, {0}} : createPriority("u1", "ship", rank, {1})
  \/ PrioritiesOf("u2") = {} /\ createPriority("u2", "ship", {}, {1})
  \/ \E date \in Days : getPrioritiesByDate("u1", date)
  \/ \E id \in PriorityIds : getPriorityById("u1", id)
  \/ updatePriority("u1", 1, {}, {TRUE}, {2})
  \/ togglePriorityCompletion("u1", 1)
  \/ updatePriorityRank("u1", 1, 1)
  \/ \E id \in PriorityIds : deletePriority("u1", id)

SpecCrud == Init /\ [][NextCrud]_vars

JournalByIdOps == {"getJournalEntryById", "updateJournalEntry", "deleteJournalEntry"}

PriorityByIdOps ==
  {"getPriorityById", "updatePriority", "togglePriorityCompletion",
   "updatePriorityRank", "deletePriority"}

\* C14: a journal or priority endpoint that addresses a row by :id answers 404
\* and leaves every table as it is when the caller has no row of that id.
C14_MissingRowIs404 ==
  [][/\ last'.op \in JournalByIdOps /\ now' = now /\ last' # last
        /\ (\A e \in journalEntries : ~(e.id = last'.id /\ e.userId = last'.userId))
        => last'.status = 404 /\ UNCHANGED tables
     /\ last'.op \in PriorityByIdOps /\ now' = now /\ last' # last
        /\ (\A p \in priorities : ~(p.id = last'.id /\ p.userId = last'.userId))
        => last'.status = 404 /\ UNCHANGED tables]_vars

\* C15: GET /journal/by-date?date=D sends back the caller's entries dated on
\* the day of D, and no other entry.
C15_EntriesOfTheDay ==
  [][Handled("getJournalEntriesByDate") /\ last' # last =>
       last'.returned =
         {e \in journalEntries : /\ e.userId = last'.userId
                                 /\ StartOfDay(e.date) = StartOfDay(last'.date)}]_vars

\* C16: the rank of every priority row is a positive integer.
C16_RankPositive == \A p \in priorities : p.rank >= 1

(***************************************************************************)
(* Validation of the answer at the boundary.                               *)
(***************************************************************************)
Bodies == {{}, {""}, {"a1"}}

NextValidation ==
  \/ \E u \in Users : EntriesOf(u) = {} /\ createJournalEntry(u, "met Alex", {})
  \/ \E u \in Users, id \in EntryIds :
       analyzeJournalEntry(u, id, Analysis(<<>>, <<Alex("cto")>>, <<>>,
                                           Ask(<<"who?", "why?">>)))
  \/ \E u \in Users, id \in 1..MaxItems, body \in Bodies :
       postAnswerQuestion(u, id, body, Insights(<<Atlas>>, <<>>, <<>>))
  \/ \E id \in 1..MaxItems, body \in Bodies : postAnswerQuestion("u1", id, body, Failed)

SpecValidation == Init /\ [][NextValidation]_vars

\* C17: POST /ai/answer-question/:id with an empty or a missing answer is
\* answered with a 4xx status, calls no model and leaves every table as it is.
C17_EmptyAnswerRejected ==
  [][/\ last'.op \in {"postAnswerQuestion", "answerClarifyingQuestion"}
     /\ now' = now /\ last' # last
     /\ last'.answer \in {Null, ""}
     => /\ last'.status \in 400..499
        /\ last'.modelCalls = 0
        /\ UNCHANGED tables]_vars

\* An empty answer to a pending question of the caller has been rejected.
C17_Witness ==
  /\ last.op = "postAnswerQuestion"
  /\ last.status = 400
  /\ last.answer = ""
  /\ \E q \in clarifyingQuestions :
       q.id = last.id /\ q.userId = last.userId /\ q.status = "pending"
  /\ \E q \in clarifyingQuestions : q.status = "answered"

(***************************************************************************)
(* analyzeJournalEntry statement by statement: every await hands control   *)
(* to the other requests, so the statements of two analyses interleave.    *)
(***************************************************************************)
\* The blocks of the function in the order of the source.
PhaseAfter(pc) ==
  CASE pc = "priorities" -> "entities"
    [] pc = "entities" -> "relationships"
    [] pc = "relationships" -> "questions"
    [] pc = "questions" -> "return"

\* The list a block loops over.
ItemsOf(resp, pc) ==
  CASE pc = "priorities" -> resp.priorities
    [] pc = "entities" -> resp.entities
    [] pc = "relationships" -> resp.relationships
    [] pc = "questions" -> resp.clarifyingQuestions

\* The first statement of the body of each loop.
FirstStatement(pc) ==
  CASE pc = "priorities" -> "insert"
    [] pc = "entities" -> "select"
    [] pc = "relationships" -> "source"
    [] pc = "questions" -> "select"
    [] pc = "return" -> "return"

\* Control after a loop body: the next item, or the next block that has items.
RECURSIVE Proceed(_)
Proceed(req) ==
  IF req.pc = "return" \/ req.i <= Len(ItemsOf(req.resp, req.pc))
  THEN [req EXCEPT !.at = FirstStatement(req.pc), !.found = {}, !.source = {},
                   !.target = {}]
  ELSE Proceed([req EXCEPT !.pc = PhaseAfter(@), !.i = 1])

NextItem(req) == Proceed([req EXCEPT !.i = @ + 1])

Item(req) == ItemsOf(req.resp, req.pc)[req.i]

\* A faulty variant: the insert does not depend on what the lookup returned.
AnyResult(found) == TRUE

\* existing.length === 0
NoneFound(found) == found = {}

\* .limit(1): the results a query can return, one row of the matching ones.
LimitOne(rows) == IF rows = {} THEN {{}} ELSE {{x} : x \in rows}

At(r, pc, at) == running[r].pc = pc /\ running[r].at = at

\* The entry lookup, the context queries, the call of the model and JSON.parse
startAnalysis(r, u, id, resp) ==
  LET entryResults == EntryById(id, u)
  IN /\ running[r] = Idle
     /\ IF entryResults = {}
        THEN /\ last' = Request("analyzeJournalEntry", u, id, 500, NoResp, {}, {}, 0)
             /\ UNCHANGED <<tables, seq, now, running, scroll>>
        ELSE IF ~resp.ok
        THEN /\ last' = Request("analyzeJournalEntry", u, id, 500, resp, {},
                                AnalysisContext(u, id), 1)
             /\ UNCHANGED <<tables, seq, now, running, scroll>>
        ELSE /\ running' =
                  [running EXCEPT ![r] =
                     Proceed([userId |-> u, id |-> id, resp |-> resp,
                              pc |-> "priorities", at |-> "insert", i |-> 1,
                              source |-> {}, target |-> {}, found |-> {}])]
             /\ UNCHANGED <<tables, seq, now, last, scroll>>

\* await db.insert(priorities).values(...)
insertPriority(r) ==
  LET req == running[r]
      entry == CHOOSE e \in {[id |-> req.id]} : TRUE
  IN /\ At(r, "priorities", "insert")
     /\ seq.priorities <= MaxPriorities
     /\ priorities' = StorePriorities(req.userId,
                        AnalysisPriorities(<<Item(req)>>, req.userId, entry,
                                           seq.priorities))
     /\ seq' = [seq EXCEPT !.priorities = @ + 1]
     /\ running' = [running EXCEPT ![r] = NextItem(req)]
     /\ UNCHANGED <<journalEntries, contextEntities, entityRelationships,
                    clarifyingQuestions, now, last, scroll>>

\* const existingEntity = await db.select()...limit(1)
selectExistingEntity(r) ==
  LET req == running[r]
      entity == Item(req)
  IN /\ At(r, "entities", "select")
     /\ \E existingEntity \in
            LimitOne(EntityByKey(contextEntities, req.userId, entity.type, entity.name)) :
          running' =
            [running EXCEPT ![r] =
               IF \/ NoneFound(existingEntity)
                  \/ \E e \in existingEntity :
                       entity.description # "" /\ entity.description # e.description
               THEN [req EXCEPT !.at = "write", !.found = existingEntity]
               ELSE NextItem(req)]
     /\ UNCHANGED <<tables, seq, now, last, scroll>>

\* await db.insert(contextEntities), or await db.update(contextEntities) of the
\* row the lookup returned
writeEntity(r) ==
  LET req == running[r]
      entity == Item(req)
  IN /\ At(r, "entities", "write")
     /\ IF NoneFound(req.found)
        THEN /\ Cardinality(contextEntities) < MaxEntities
             /\ contextEntities' =
                  contextEntities \cup {NewEntity(contextEntities, req.userId, entity)}
        ELSE contextEntities' =
               {IF \E f \in req.found : f.id = e.id
                THEN [e EXCEPT !.description = entity.description, !.updatedAt = now]
                ELSE e : e \in contextEntities}
     /\ running' = [running EXCEPT ![r] = NextItem(req)]
     /\ UNCHANGED <<journalEntries, priorities, entityRelationships,
                    clarifyingQuestions, seq, now, last, scroll>>

\* const sourceEntity = await db.select()...limit(1)
selectSourceEntity(r) ==
  LET req == running[r]
      relationship == Item(req)
  IN /\ At(r, "relationships", "source")
     /\ \E sourceEntity \in
            LimitOne(EntityByKey(contextEntities, req.userId,
                                 relationship.sourceType, relationship.sourceName)) :
          running' = [running EXCEPT ![r] =
                        [req EXCEPT !.at = "target", !.source = sourceEntity]]
     /\ UNCHANGED <<tables, seq, now, last, scroll>>

\* const targetEntity = await db.select()...limit(1)
selectTargetEntity(r) ==
  LET req == running[r]
      relationship == Item(req)
  IN /\ At(r, "relationships", "target")
     /\ \E targetEntity \in
            LimitOne(EntityByKey(contextEntities, req.userId,
                                 relationship.targetType, relationship.targetName)) :
          running' =
            [running EXCEPT ![r] =
               IF req.source # {} /\ targetEntity # {}
               THEN [req EXCEPT !.at = "existing", !.target = targetEntity]
               ELSE NextItem(req)]
     /\ UNCHANGED <<tables, seq, now, last, scroll>>

\* const existingRelationship = await db.select()...limit(1)
selectExistingRelationship(r) ==
  LET req == running[r]
      relationship == Item(req)
  IN /\ At(r, "relationships", "existing")
     /\ \E s \in req.source, t \in req.target :
          \E existingRelationship \in
              LimitOne(ExistingRelationship(entityRelationships, req.userId, s.id, t.id,
                                            relationship.relationshipType)) :
            running' =
              [running EXCEPT ![r] =
                 IF NoneFound(existingRelationship)
                 THEN [req EXCEPT !.at = "insert"]
                 ELSE NextItem(req)]
     /\ UNCHANGED <<tables, seq, now, last, scroll>>

\* await db.insert(entityRelationships).values(...)
insertRelationship(r) ==
  LET req == running[r]
      relationship == Item(req)
  IN /\ At(r, "relationships", "insert")
     /\ Cardinality(entityRelationships) < MaxRelationships
     /\ \E s \in req.source, t \in req.target :
          entityRelationships' =
            entityRelationships \cup
              {NewRelationship(entityRelationships, req.userId, s.id, t.id,
                               relationship.relationshipType)}
     /\ running' = [running EXCEPT ![r] = NextItem(req)]
     /\ UNCHANGED <<journalEntries, priorities, contextEntities,
                    clarifyingQuestions, seq, now, last, scroll>>

\* const existingQuestion = await db.select()...limit(1)
selectExistingQuestion(r) ==
  LET req == running[r]
      question == Item(req)
  IN /\ At(r, "questions", "select")
     /\ \E existingQuestion \in
            LimitOne({q \in clarifyingQuestions :
                        q.userId = req.userId /\ q.question = question.question}) :
          running' =
            [running EXCEPT ![r] =
               IF NoneFound(existingQuestion)
               THEN [req EXCEPT !.at = "insert"]
               ELSE NextItem(req)]
     /\ UNCHANGED <<tables, seq, now, last, scroll>>

\* await db.insert(clarifyingQuestions).values(...)
insertQuestion(r) ==
  LET req == running[r]
      question == Item(req)
  IN /\ At(r, "questions", "insert")
     /\ Cardinality(clarifyingQuestions) < MaxQuestions
     /\ clarifyingQuestions' =
          clarifyingQuestions \cup
            {NewQuestion(clarifyingQuestions, req.userId, question.question)}
     /\ running' = [running EXCEPT ![r] = NextItem(req)]
     /\ UNCHANGED <<journalEntries, priorities, contextEntities,
                    entityRelationships, seq, now, last, scroll>>

\* The statements that write.
Writes == {<<"priorities", "insert">>, <<"entities", "write">>,
           <<"relationships", "insert">>, <<"questions", "insert">>}

\* A faulty variant: the priorities of the entry are taken back when a write throws.
PrioritiesRolledBack(req) == {p \in priorities : p.journalEntryId # req.id}

\* No statement of the function runs in a transaction: what was written stays.
PrioritiesAfterThrow(req) == priorities

\* An awaited write rejects: the exception leaves the function and the route
\* answers 500.  The response records the statement that threw.
writeThrows(r) ==
  LET req == running[r]
  IN /\ <<req.pc, req.at>> \in Writes
     /\ priorities' = PrioritiesAfterThrow(req)
     /\ running' = [running EXCEPT ![r] = Idle]
     /\ last' = Request("analyzeJournalEntry", req.userId, req.id, 500, req.resp,
                        {[pc |-> req.pc, i |-> req.i]}, {}, 1)
     /\ UNCHANGED <<journalEntries, contextEntities, entityRelationships,
                    clarifyingQuestions, seq, now, scroll>>

\* return analysisResult
returnAnalysis(r) ==
  LET req == running[r]
  IN /\ req.pc = "return"
     /\ running' = [running EXCEPT ![r] = Idle]
     /\ last' = Request("analyzeJournalEntry", req.userId, req.id, 200, req.resp,
                        {}, {}, 1)
     /\ UNCHANGED <<tables, seq, now, scroll>>

Extracted ==
  Analysis(<<Ship>>, <<Alex("cto"), Atlas>>, <<Manages("person", "Alex")>>,
           Ask(<<"who?">>))

Promoted == Analysis(<<>>, <<Alex("ceo")>>, <<>>, <<>>)

NextStatements ==
  \/ EntriesOf("u1") = {} /\ createJournalEntry("u1", "met Alex", {})
  \/ \E r \in Requests, resp \in {Extracted, Promoted, Failed} :
       startAnalysis(r, "u1", 1, resp)
  \/ \E r \in Requests : insertPriority(r)
  \/ \E r \in Requests : selectExistingEntity(r)
  \/ \E r \in Requests : writeEntity(r)
  \/ \E r \in Requests : selectSourceEntity(r)
  \/ \E r \in Requests : selectTargetEntity(r)
  \/ \E r \in Requests : selectExistingRelationship(r)
  \/ \E r \in Requests : insertRelationship(r)
  \/ \E r \in Requests : selectExistingQuestion(r)
  \/ \E r \in Requests : insertQuestion(r)
  \/ \E r \in Requests : writeThrows(r)
  \/ \E r \in Requests : returnAnalysis(r)

SpecStatements == Init /\ [][NextStatements]_vars

SameEntity(e) ==
  {f \in contextEntities : f.userId = e.userId /\ f.type = e.type /\ f.name = e.name}

SameRelationship(x) ==
  {y \in entityRelationships :
     /\ y.userId = x.userId
     /\ y.sourceEntityId = x.sourceEntityId
     /\ y.targetEntityId = x.targetEntityId
     /\ y.relationshipType = x.relationshipType}

\* C18: analyses of one user that run at the same time can each pass the
\* existence check before the other inserts, which stores the same entity and
\* the same relationship once per analysis under way (and never more often:
\* every further row needs a lookup of its own that found nothing).
C18_OneRowPerConcurrentAnalysis ==
  /\ \A e \in contextEntities : Cardinality(SameEntity(e)) <= Cardinality(Requests)
  /\ \A x \in entityRelationships :
       Cardinality(SameRelationship(x)) <= Cardinality(Requests)

\* Two analyses have stored the same entity twice and the same relationship twice.
C18_Witness ==
  /\ \E e \in contextEntities : Cardinality(SameEntity(e)) = 2
  /\ \E x \in entityRelationships : Cardinality(SameRelationship(x)) = 2
  /\ \A r \in Requests : running[r] = Idle
  /\ last.op = "analyzeJournalEntry" /\ last.status = 200

\* The position of a block in the order the claim gives.
BlockNo(pc) ==
  CASE pc = "idle" -> 0
    [] pc = "priorities" -> 1
    [] pc = "entities" -> 2
    [] pc = "relationships" -> 3
    [] pc = "questions" -> 4
    [] pc = "return" -> 5

\* C19: an analysis writes priorities, then entities, then relationships, then
\* questions: a statement of it changes only the table of the block it is in,
\* and the blocks follow each other in that order.  When a write throws, the
\* step changes no table (what was written before stays), the analysis is over
\* (it writes nothing later) and the request is answered with an error status.
C19_WritesInOrderNoRollback ==
  [][\A r \in Requests :
       running'[r] # running[r] =>
         /\ running[r].pc = "priorities" \/ UNCHANGED priorities
         /\ running[r].pc = "entities" \/ UNCHANGED contextEntities
         /\ running[r].pc = "relationships" \/ UNCHANGED entityRelationships
         /\ running[r].pc = "questions" \/ UNCHANGED clarifyingQuestions
         /\ UNCHANGED journalEntries
         /\ running'[r] # Idle => BlockNo(running'[r].pc) >= BlockNo(running[r].pc)
         /\ running'[r] = Idle /\ running[r].pc # "return" =>
              /\ UNCHANGED tables
              /\ last'.op = "analyzeJournalEntry"
              /\ last'.status \notin {200, 201}]_vars

\* The insert of the relationship threw: the priority and the entities of the
\* analysis are stored, no relationship and no question is, and the request
\* was answered 500.
C19_Witness ==
  /\ last.op = "analyzeJournalEntry"
  /\ last.status = 500
  /\ last.returned = {[pc |-> "relationships", i |-> 1]}
  /\ \A r \in Requests : running[r] = Idle
  /\ \E p \in priorities : p.journalEntryId = last.id /\ p.userId = last.userId
  /\ \E e \in contextEntities : e.userId = last.userId
  /\ entityRelationships = {}
  /\ clarifyingQuestions = {}

\* C20: a request that stores an answer on a question also runs the
\* extraction pass over the answer, once: the model is called exactly once in
\* the request that made the question answered with that answer.
C20_AnswerStoredWithExtraction ==
  [][/\ last'.op \in AnswerOps
     /\ now' = now
     /\ last' # last
     /\ \E q \in clarifyingQuestions' :
          /\ q.id = last'.id
          /\ q.userId = last'.userId
          /\ q.status = "answered"
          /\ q.answer = last'.answer
     /\ last'.addressed # {}
     => last'.modelCalls = 1]_vars

(***************************************************************************)
(* The clarifying questions of entry analysis, proposed again and again.   *)
(***************************************************************************)
NextAsked ==
  \/ \E u \in Users : EntriesOf(u) = {} /\ createJournalEntry(u, "met Alex", {})
  \/ \E u \in Users, id \in EntryIds,
        q \in {Ask(<<"who?">>), Ask(<<"who?", "why?">>), Ask(<<"why?", "why?">>)} :
       analyzeJournalEntry(u, id, Analysis(<<>>, <<>>, <<>>, q))
  \/ generateClarifyingQuestions("u1", Questions(Ask(<<"who?">>)))
  \/ \E id \in 1..MaxItems :
       answerClarifyingQuestion("u1", id, "a1", Insights(<<>>, <<>>, <<>>))

SpecAsked == Init /\ [][NextAsked]_vars

\* C21: an analysis whose response has M clarifying questions adds M question
\* rows of the user, whether or not the text is stored already.
C21_EveryQuestionInserted ==
  [][Handled("analyzeJournalEntry") /\ last'.status = 200
     => Cardinality({q \in clarifyingQuestions' : q.userId = last'.userId})
          = Cardinality(QuestionsOf(last'.userId))
              + Len(last'.resp.clarifyingQuestions)]_vars

\* C22: a row entry analysis inserts is a pending row of the caller whose
\* question text no row of the caller had before, in whatever status, and no
\* other row inserted by the same analysis has.
C22_QuestionInsertedIfAbsent ==
  [][Handled("analyzeJournalEntry") =>
       \A q \in clarifyingQuestions' \ clarifyingQuestions :
         /\ q.userId = last'.userId
         /\ q.status = "pending"
         /\ \A x \in clarifyingQuestions' :
              x.userId = q.userId /\ x.question = q.question => x = q]_vars

\* An analysis proposed "who?", stored and answered before, and "why?": the
\* user has one row of each.
C22_Witness ==
  /\ last.op = "analyzeJournalEntry"
  /\ last.status = 200
  /\ last.resp.clarifyingQuestions = Ask(<<"who?", "why?">>)
  /\ \E q \in clarifyingQuestions, x \in clarifyingQuestions :
       /\ q.userId = last.userId /\ q.question = "who?" /\ q.status = "answered"
       /\ x.userId = last.userId /\ x.question = "why?" /\ x.id > q.id
       /\ Cardinality(QuestionsOf(last.userId)) = 2

\* C23: a priority row the daily summary creates has a content no other
\* priority row of the user has, stored before or created by the same call.
C23_SummaryContentUnique ==
  [][Handled("generateDailySummary") =>
       \A p \in priorities' \ priorities :
         \A x \in priorities' :
           x.userId = p.userId /\ x.content = p.content => x = p]_vars

\* C24: when the user has no journal entry dated on the day of the summary, the
\* summary calls no model and writes no row.
C24_SummaryOfTheDay ==
  [][/\ Handled("generateDailySummary")
     /\ last' # last
     /\ \A e \in EntriesOf(last'.userId) :
          StartOfDay(e.date) # StartOfDay(last'.date)
     => /\ last'.modelCalls = 0
        /\ last'.status = 200
        /\ UNCHANGED tables]_vars

\* C25: an entity row the answer pass creates has a (userId, type, name) that
\* no other entity row has, stored before or created by the same pass.
C25_AnswerPassNoDuplicateEntity ==
  [][Handled("answerClarifyingQuestion") =>
       \A e \in contextEntities' \ contextEntities :
         \A x \in contextEntities' :
           x.userId = e.userId /\ x.type = e.type /\ x.name = e.name => x = e]_vars

\* The entity row with the given id is one of the entities of the response.
InResponse(resp, id) ==
  \E e \in contextEntities' :
    /\ e.id = id
    /\ \E i \in 1..Len(resp.entities) :
         resp.entities[i].type = e.type /\ resp.entities[i].name = e.name

\* C26: a relationship row entry analysis creates has both its source and its
\* target among the entities of the same response.
C26_EndpointsOfTheResponse ==
  [][Handled("analyzeJournalEntry") =>
       \A x \in entityRelationships' \ entityRelationships :
         /\ InResponse(last'.resp, x.sourceEntityId)
         /\ InResponse(last'.resp, x.targetEntityId)]_vars

(***************************************************************************)
(* The answer pass over new entities that are stored already, under        *)
(* another letter case or next to an entity of the same name.              *)
(***************************************************************************)
AlexLowerCase == [type |-> "person", name |-> "alex", description |-> "cto"]

AlexProject == [type |-> "project", name |-> "Alex", description |-> "codename"]

NextResolved ==
  \/ EntriesOf("u1") = {} /\ createJournalEntry("u1", "met Alex", {})
  \/ EntitiesOf("u1") = {} /\
       analyzeJournalEntry("u1", 1, Analysis(<<>>, <<Alex("cto"), Atlas>>, <<>>,
                                             Ask(<<"who?">>)))
  \/ \E id \in 1..MaxItems,
        n \in {<<AlexLowerCase>>, <<Alex("cto")>>, <<Alex("cto"), AlexProject>>},
        r \in Lists({ManagesByName("Alex"), ManagesByName("alex")}, 1) :
       answerClarifyingQuestion("u1", id, "Alex", Insights(n, r, <<>>))

SpecResolved == Init /\ [][NextResolved]_vars

\* The stored entities of the user a proposed entity matches: same type, same
\* name but for the letter case.
StoredAs(u, entity) ==
  {e \in EntitiesOf(u) :
     e.type = entity.type /\ toLowerCase(e.name) = toLowerCase(entity.name)}

\* C27: a proposed new entity of the answer pass that matches a stored entity of
\* the user is not inserted, and a relationship of the same response whose
\* source names it is stored with the id of that stored entity.
C27_ResolvesToStoredEntity ==
  [][Handled("answerClarifyingQuestion") /\ last'.status = 200 =>
       \A i \in 1..Len(last'.resp.newEntities) :
         LET entity == last'.resp.newEntities[i]
         IN StoredAs(last'.userId, entity) # {} =>
              /\ \A e \in contextEntities' \ contextEntities :
                   ~(e.type = entity.type /\ e.name = entity.name)
              /\ \A x \in entityRelationships' \ entityRelationships :
                   (\A j \in 1..Len(last'.resp.relationships) :
                      last'.resp.relationships[j].sourceEntityName = entity.name)
                   => x.sourceEntityId \in {e.id : e \in StoredAs(last'.userId, entity)}]_vars

(***************************************************************************)
(* generateClarifyingQuestions statement by statement, next to the other   *)
(* requests of the user.                                                   *)
(***************************************************************************)
\* The selects up to the pending questions, which are returned when there are
\* any; otherwise the entries select, the call of the model and JSON.parse.
startGeneration(r, u, resp) ==
  LET context == UNION (Limit(EntitiesOf(u), RecentEntitiesLimit)
                        \cup Limit(RelationshipsOf(u), QuestionRelationshipsLimit))
  IN /\ running[r] = Idle
     /\ \E pendingQuestions \in SelectPending(u) :
          IF pendingQuestions # {}
          THEN /\ last' = Request("generateClarifyingQuestions", u, 0, 200, NoResp,
                                  pendingQuestions, context \cup pendingQuestions, 0)
               /\ UNCHANGED <<tables, seq, now, running, scroll>>
          ELSE IF ~resp.ok
          THEN /\ last' = Request("generateClarifyingQuestions", u, 0, 500, resp, {},
                                  context \cup UNION Limit(EntriesOf(u), RecentEntriesLimit),
                                  1)
               /\ UNCHANGED <<tables, seq, now, running, scroll>>
          ELSE /\ running' = [running EXCEPT ![r] =
                                [userId |-> u, resp |-> resp, pc |-> "generate",
                                 at |-> "insert", i |-> 1, newQuestions |-> {}]]
               /\ UNCHANGED <<tables, seq, now, last, scroll>>

\* const results = await db.insert(clarifyingQuestions).values(...).returning()
insertGenerated(r) ==
  LET req == running[r]
      row == NewQuestion(clarifyingQuestions, req.userId, req.resp.questions[req.i].question)
  IN /\ At(r, "generate", "insert")
     /\ req.i <= Len(req.resp.questions)
     /\ Cardinality(clarifyingQuestions) < MaxQuestions
     /\ clarifyingQuestions' = clarifyingQuestions \cup {row}
     /\ running' = [running EXCEPT ![r] =
                      [req EXCEPT !.i = @ + 1, !.newQuestions = @ \cup {row}]]
     /\ UNCHANGED <<journalEntries, priorities, contextEntities,
                    entityRelationships, seq, now, last, scroll>>

\* return newQuestions
returnGenerated(r) ==
  LET req == running[r]
  IN /\ At(r, "generate", "insert")
     /\ req.i > Len(req.resp.questions)
     /\ running' = [running EXCEPT ![r] = Idle]
     /\ last' = Request("generateClarifyingQuestions", req.userId, 0, 200, req.resp,
                        req.newQuestions, {}, 1)
     /\ UNCHANGED <<tables, seq, now, scroll>>

NextGeneration ==
  \/ EntriesOf("u1") = {} /\ createJournalEntry("u1", "met Alex", {})
  \/ \E r \in Requests, resp \in {Questions(Ask(<<"which?", "whose?">>)), Failed} :
       startGeneration(r, "u1", resp)
  \/ \E r \in Requests : insertGenerated(r)
  \/ \E r \in Requests : returnGenerated(r)
  \/ analyzeJournalEntry("u1", 1, Analysis(<<>>, <<>>, <<>>, Ask(<<"who?">>)))
  \/ \E id \in 1..MaxItems :
       answerClarifyingQuestion("u1", id, "a1", Insights(<<>>, <<>>, <<>>))

SpecGeneration == Init /\ [][NextGeneration]_vars

\* C28: when a question generation inserts a row, the pending questions the
\* user has at that moment are rows of this generation.
C28_GeneratesOnlyWithoutPending ==
  [][\A r \in Requests :
       /\ running[r].pc = "generate"
       /\ running'[r] # running[r]
       /\ clarifyingQuestions' # clarifyingQuestions
       => \A q \in Pending(running[r].userId) :
            \E x \in running[r].newQuestions : x.id = q.id]_vars

(***************************************************************************)
(* PUT /priorities/:id/toggle statement by statement: the read of the row  *)
(* and the UPDATE are two awaits.                                          *)
(***************************************************************************)
\* const priority = await this.getPriorityById(id, userId): null answers 404
selectToToggle(r, u, id) ==
  LET priority == PriorityById(id, u)
  IN /\ running[r] = Idle
     /\ IF priority = {}
        THEN /\ last' = Request("togglePriorityCompletion", u, id, 404, NoResp, {}, {}, 0)
             /\ UNCHANGED <<tables, seq, now, running, scroll>>
        ELSE /\ running' = [running EXCEPT ![r] =
                              [userId |-> u, id |-> id, pc |-> "toggle",
                               at |-> "update", priority |-> priority]]
             /\ UNCHANGED <<tables, seq, now, last, scroll>>

\* await db.update(priorities).set({completed: !priority.completed}).returning()
updateToggled(r) ==
  LET req == running[r]
      hit == PriorityById(req.id, req.userId)
      completed == \E p \in req.priority : ~p.completed
      results == {[p EXCEPT !.completed = completed, !.updatedAt = now] : p \in hit}
  IN /\ At(r, "toggle", "update")
     /\ priorities' = (priorities \ hit) \cup results
     /\ running' = [running EXCEPT ![r] = Idle]
     /\ last' = Request("togglePriorityCompletion", req.userId, req.id,
                        IF results = {} THEN 404 ELSE 200, NoResp, results,
                        req.priority, 0)
     /\ UNCHANGED <<journalEntries, contextEntities, entityRelationships,
                    clarifyingQuestions, seq, now, scroll>>

NextToggle ==
  \/ Tick
  \/ createPriority("u1", "ship", {}, {1})
  \/ \E r \in Requests, id \in PriorityIds : selectToToggle(r, "u1", id)
  \/ \E r \in Requests : updateToggled(r)
  \/ \E id \in PriorityIds : deletePriority("u1", id)

SpecToggle == Init /\ [][NextToggle]_vars

\* C29: a toggle request that is answered 200 leaves the completed flag of the
\* priority the negation of what was stored when its UPDATE ran.
C29_ToggleFlips ==
  [][\A r \in Requests :
       /\ running[r].pc = "toggle"
       /\ running'[r] = Idle
       /\ last'.status = 200
       => \A p \in PriorityById(running[r].id, running[r].userId) :
            \E x \in priorities' : x.id = p.id /\ x.completed = ~p.completed]_vars

(***************************************************************************)
(* JournalView: useInfiniteQuery over GET /journal/by-date.                *)
(***************************************************************************)
PageSize == 10

MaxStored == 11

MaxFetches == 3

\* n0 entries of the user dated on day 0 and n1 entries dated on day 1.
StoredEntries(n0, n1) ==
  {[userId |-> "u1", id |-> i, date |-> IF i <= n0 THEN 0 ELSE TicksPerDay,
    content |-> "met Alex", updatedAt |-> 0] : i \in 1..(n0 + n1)}

\* The journal view opens on a store that holds entries already.
InitScroll ==
  /\ \E n0 \in 0..MaxStored, n1 \in 0..1 :
       /\ n0 + n1 <= MaxStored
       /\ journalEntries = StoredEntries(n0, n1)
       /\ seq = [journalEntries |-> n0 + n1 + 1, priorities |-> 1, rank |-> 1,
                 journalEntryId |-> 1]
  /\ priorities = {}
  /\ contextEntities = {}
  /\ entityRelationships = {}
  /\ clarifyingQuestions = {}
  /\ now = 0
  /\ last = Request("init", "u1", 0, 200, NoResp, {}, {}, 0)
  /\ running = [r \in Requests |-> Idle]
  /\ scroll = Unloaded(0)

\* allPages.flat().length
RECURSIVE Loaded(_)
Loaded(pages) ==
  IF pages = <<>> THEN 0 ELSE Cardinality(Head(pages)) + Loaded(Tail(pages))

\* getNextPageParam: lastPage.length === 10 ? allPages.flat().length : undefined
HasNextPage(pages) == pages # <<>> /\ Cardinality(pages[Len(pages)]) = PageSize

\* queryFn: getJournalEntriesByDate(formattedDate, 10, pageParam).  The client
\* sends date, limit and offset; dateQuerySchema keeps the date alone and the
\* route calls the service with its defaults.
queryFn(u, limit, pageParam) ==
  /\ byDate(u, scroll.date)
  /\ scroll' = [scroll EXCEPT !.pages = Append(@, {e.id : e \in last'.returned})]

\* The first page: initialPageParam 0
fetchFirstPage(u) ==
  /\ scroll.pages = <<>>
  /\ queryFn(u, PageSize, 0)

\* fetchNextPage() of the intersection observer, while hasNextPage
fetchNextPage(u) ==
  /\ HasNextPage(scroll.pages)
  /\ Len(scroll.pages) < MaxFetches
  /\ queryFn(u, PageSize, Loaded(scroll.pages))

\* setSelectedDate and queryClient.resetQueries of the new key
setSelectedDate(day) ==
  /\ day # scroll.date
  /\ scroll' = Unloaded(day)
  /\ UNCHANGED <<tables, seq, now, last, running>>

NextScroll ==
  \/ fetchFirstPage("u1")
  \/ fetchNextPage("u1")
  \/ \E day \in Days : setSelectedDate(day)

SpecScroll == InitScroll /\ [][NextScroll]_vars

\* C30: every fetch of a next page loads an entry that was not loaded before or
\* ends the scroll, so the scroll ends after finitely many fetches; and once
\* hasNextPage is false, every entry of the user dated on the selected day is in
\* the list, none of them twice.
C30_ScrollTerminatesComplete ==
  [][/\ scroll'.pages # <<>> /\ Len(scroll'.pages) = Len(scroll.pages) + 1 =>
          \/ ~HasNextPage(scroll'.pages)
          \/ \E id \in scroll'.pages[Len(scroll'.pages)] :
               \A i \in 1..Len(scroll.pages) : id \notin scroll.pages[i]
     /\ scroll'.pages # <<>> /\ ~HasNextPage(scroll'.pages) =>
          /\ \A e \in EntriesOf("u1") :
               StartOfDay(e.date) = StartOfDay(scroll'.date) =>
                 \E i \in 1..Len(scroll'.pages) : e.id \in scroll'.pages[i]
          /\ \A i, j \in 1..Len(scroll'.pages) :
               i # j => scroll'.pages[i] \cap scroll'.pages[j] = {}]_vars
====
